---- MODULE Spec2Model ----
(***************************************************************************)
(* A model of vespalib::gp (eval/src/vespa/eval/gp/gp.h, gp.cpp): the      *)
(* operation catalog (OpRepo), references (Program::Ref), programs         *)
(* (Program) and the generational loop (Population).                       *)
(*                                                                         *)
(* Conventions.  C++ vectors are 0-based, TLA+ sequences 1-based: element  *)
(* i of a vector v is v[i + 1].  A random draw rnd.get(min, max) is the    *)
(* set min..max, and a function that draws is modelled by the set of its   *)
(* possible results.  A string is the sequence of the pieces that          *)
(* make_string prints.  A failed assert() ends the process: the variable   *)
(* aborted records it and no operation runs afterwards.                    *)
(***************************************************************************)
EXTENDS Integers, Sequences, FiniteSets, TLC

VARIABLES
    prog,       \* a Program driven directly through its public interface
    last,       \* the last call made: its name, arguments and result
    aborted,    \* TRUE once an assert() has failed
    gen,        \* Population::_gen
    params,     \* Population::_params
    programs,   \* Population::_programs
    hook        \* OpRepo::_find_weakness, as a table from operation lists to Feedback

vars == <<prog, last, aborted, gen, params, programs, hook>>
progvars == <<prog>>
popvars == <<gen, params, programs, hook>>

-----------------------------------------------------------------------------
(* Bounds of the model *)

\* longest operation list built through add_op / add_forward / grow
MaxLen == 2
\* longest operation list of the doubling chains (SpecDeep)
MaxDeepLen == 14
\* number of tick() calls followed
MaxGen == 2
\* forward operations a doubling chain may hold (SpecDeep)
MaxDeepForwards == 1
\* rounds of the do/while loop of Population::mutate that are followed
MaxMutRounds == 2
\* largest limit passed to select() from outside tick()
MaxSelectLimit == 3
\* largest weakness the fitness hook reports
MaxWeakness == 1

\* the node count above which as_string prints a placeholder
NodeLimit == 9000

\* Params::in_cnt and Params::out_cnt of the programs driven directly
InCnts == {1, 2}
OutCnts == {1, 2}

Min(a, b) == IF a < b THEN a ELSE b

\* size_t arithmetic is modular.  The checker's integers are 32 bits wide, so the
\* modulus 2^64 of size_t is stood for by 2^16, and the width of int by the same
\* 16 bits: both are powers of 4, so that an operation count taken below zero
\* wraps to the same residues modulo 1, 2 and 3.
SizeMod == 65536

\* the size_t value of an integer expression
to_size_t(x) == x % SizeMod

\* the conversion of a size_t to int, as in Ref(int idx_in) called with a size_t
to_int(x) == IF x >= SizeMod \div 2 THEN x - SizeMod ELSE x

-----------------------------------------------------------------------------
(* Random *)

\* Random::get(min, max): a uniform draw from the closed range
get(min, max) == min..max

-----------------------------------------------------------------------------
(* OpRepo *)

Entry(name_in, cost_in) == [name |-> name_in, cost |-> cost_in]

\* OpRepo::OpRepo: the list starts with the forward operation, cost 0
OpRepo == << Entry("forward", 0) >>

\* OpRepo::add: every added operation has cost 1
add(repo, name) == Append(repo, Entry(name, 1))

\* the catalog of the test (my_repo), cut to its first operation
my_repo == add(OpRepo, "add")

name_of(repo, op) == repo[op + 1].name
cost_of(repo, op) == repo[op + 1].cost
max_op(repo) == Len(repo) - 1

-----------------------------------------------------------------------------
(* Program::Ref: negative idx is an input, zero or positive an operation *)

is_input(ref) == ref < 0
is_operation(ref) == ref >= 0
in_idx(ref) == -(ref + 1)
op_idx(ref) == ref
Ref_in(idx_in) == -(idx_in + 1)
Ref_op(idx_in) == to_int(idx_in)
Ref_nop == Ref_in(0)

\* a mutant of Ref_rnd: the upper end of the range is op_cnt, not op_cnt - 1
Ref_rnd_upto(in_cnt, op_cnt) == get(-in_cnt, op_cnt)

\* Ref::rnd: the values rnd_in.get(-in_cnt, op_cnt - 1) can return
Ref_rnd(in_cnt, op_cnt) == get(-in_cnt, op_cnt - 1)

-----------------------------------------------------------------------------
(* Program::Op, Program::Stats, Program *)

Op(code_in, lhs_in, rhs_in) == [code |-> code_in, lhs |-> lhs_in, rhs |-> rhs_in]

Stats(weakness_in, cost_in, born_in) ==
    [weakness |-> weakness_in, cost |-> cost_in, born |-> born_in]

\* Weakness is double.  The finite values met are whole numbers from 0 on; NaN is
\* the one value of double that compares unequal to itself and unordered with
\* every value: the number below stands for it.
NaN == -1

\* x != y, x == y and x < y of double
double_ne(x, y) == x = NaN \/ y = NaN \/ x # y
double_eq(x, y) == ~double_ne(x, y)
double_lt(x, y) == x # NaN /\ y # NaN /\ x < y

\* a mutant of Stats_lt: on equal weakness and cost the older is better
Stats_lt_older(a, b) ==
    IF double_ne(a.weakness, b.weakness) THEN double_lt(a.weakness, b.weakness)
    ELSE IF a.cost # b.cost THEN a.cost < b.cost
    ELSE a.born < b.born

\* Stats::operator<
Stats_lt(a, b) ==
    IF double_ne(a.weakness, b.weakness) THEN double_lt(a.weakness, b.weakness)
    ELSE IF a.cost # b.cost THEN a.cost < b.cost
    ELSE a.born > b.born

\* Program::Program: no operation, Stats(gen), _best_slot 0
Program(repo_in, in_cnt_in, out_cnt_in, gen_in) ==
    [repo |-> repo_in, stats |-> Stats(0, 0, gen_in),
     in_cnt |-> in_cnt_in, out_cnt |-> out_cnt_in,
     program |-> << >>, best_slot |-> 0]

\* Program::operator<
Program_lt(a, b) == Stats_lt(a.stats, b.stats)

size(p) == Len(p.program)

\* a mutant of assert_valid: an operation reference equal to the limit passes
assert_valid_upto(p, ref, limit) ==
    /\ is_input(ref) # is_operation(ref)
    /\ is_input(ref) => in_idx(ref) < p.in_cnt
    /\ is_operation(ref) => op_idx(ref) <= limit

\* Program::assert_valid: TRUE when none of its asserts fails
assert_valid(p, ref, limit) ==
    /\ is_input(ref) # is_operation(ref)
    /\ is_input(ref) => in_idx(ref) < p.in_cnt
    /\ is_operation(ref) => op_idx(ref) < limit

rnd_op(p) == get(0, max_op(p.repo))
rnd_ref(p, limit) == Ref_rnd(p.in_cnt, limit)

\* the result of a call on a program: ok is FALSE when an assert failed
Result(ok_in, p, ret_in) == [ok |-> ok_in, prog |-> p, ret |-> ret_in]

\* Program::add_op
add_op(p, code, lhs, rhs) ==
    LET op_idx_new == size(p) IN
    IF /\ code <= max_op(p.repo)
       /\ assert_valid(p, lhs, op_idx_new)
       /\ assert_valid(p, rhs, op_idx_new)
    THEN Result(TRUE, [p EXCEPT !.program = Append(@, Op(code, lhs, rhs))],
                Ref_op(op_idx_new))
    ELSE Result(FALSE, p, 0)

\* a mutant of add_forward: the appended operation has code 1, not the forward code
add_forward_code1(p, ref) == add_op(p, 1, ref, Ref_nop)

\* Program::add_forward
add_forward(p, ref) == add_op(p, 0, ref, Ref_nop)

\* Program::grow: the set of results over all draws
RECURSIVE grow_loop(_, _)
grow_loop(p, op_cnt) ==
    IF size(p) < op_cnt
    THEN UNION { LET r == add_op(p, code, lhs, rhs) IN
                 IF r.ok THEN grow_loop(r.prog, op_cnt) ELSE {r}
                 : code \in rnd_op(p),
                   lhs \in rnd_ref(p, size(p)),
                   rhs \in rnd_ref(p, size(p)) }
    ELSE {Result(TRUE, p, 0)}

\* a mutant of grow: the remainder of op_cnt by out_cnt is not asserted
grow_any_len(p, op_cnt) ==
    IF (op_cnt \div p.out_cnt) >= 1
    THEN grow_loop(p, op_cnt)
    ELSE {Result(FALSE, p, 0)}

grow(p, op_cnt) ==
    IF (op_cnt \div p.out_cnt) >= 1 /\ (op_cnt % p.out_cnt) = 0
    THEN grow_loop(p, op_cnt)
    ELSE {Result(FALSE, p, 0)}

\* a mutant of mutate_at: the edit of the left operand is written to the right
\* operand as well
mutate_at_both(p, mut_idx, sel, value) ==
    IF sel = 0 THEN [p EXCEPT !.program[mut_idx + 1].code = value]
    ELSE IF sel = 1 THEN [p EXCEPT !.program[mut_idx + 1].lhs = value,
                                   !.program[mut_idx + 1].rhs = value]
    ELSE [p EXCEPT !.program[mut_idx + 1].rhs = value]

\* Program::mutate, for the draws mut_idx, sel and the drawn value
mutate_at(p, mut_idx, sel, value) ==
    IF sel = 0 THEN [p EXCEPT !.program[mut_idx + 1].code = value]
    ELSE IF sel = 1 THEN [p EXCEPT !.program[mut_idx + 1].lhs = value]
    ELSE [p EXCEPT !.program[mut_idx + 1].rhs = value]

\* the values the chosen edit can draw
mutate_values(p, mut_idx, sel) ==
    IF sel = 0 THEN rnd_op(p) ELSE rnd_ref(p, mut_idx)

\* Program::mutate on a program with at least one operation: all results
mutate(p) ==
    { mutate_at(p, mut_idx, sel, value) :
        <<mut_idx, sel, value>> \in
            { t \in get(0, size(p) - 1) \X get(0, 2) \X ((-p.in_cnt)..size(p)) :
                t[3] \in mutate_values(p, t[1], t[2]) } }

-----------------------------------------------------------------------------
(* Program::get_cost *)

\* a mutant of get_cost_loop: the done flags are not consulted, so an operation
\* reached along two paths is counted along each
RECURSIVE get_cost_loop_nodone(_, _, _, _)
get_cost_loop_nodone(p, todo, done, cost) ==
    IF todo = << >> THEN cost
    ELSE LET ref == todo[Len(todo)]
             rest == SubSeq(todo, 1, Len(todo) - 1)
         IN  IF is_operation(ref)
             THEN LET op == p.program[op_idx(ref) + 1]
                      t1 == Append(rest, op.lhs)
                      t2 == IF op.code > 0 THEN Append(t1, op.rhs) ELSE t1
                  IN  get_cost_loop_nodone(p, t2, done, cost + cost_of(p.repo, op.code))
             ELSE get_cost_loop_nodone(p, rest, done, cost)

RECURSIVE get_cost_loop(_, _, _, _)
get_cost_loop(p, todo, done, cost) ==
    IF todo = << >> THEN cost
    ELSE LET ref == todo[Len(todo)]
             rest == SubSeq(todo, 1, Len(todo) - 1)
         IN  IF is_operation(ref) /\ ~done[op_idx(ref) + 1]
             THEN LET op == p.program[op_idx(ref) + 1]
                      t1 == Append(rest, op.lhs)
                      t2 == IF op.code > 0 THEN Append(t1, op.rhs) ELSE t1
                  IN  get_cost_loop(p, t2, [done EXCEPT ![op_idx(ref) + 1] = TRUE],
                                    cost + cost_of(p.repo, op.code))
             ELSE get_cost_loop(p, rest, done, cost)

get_cost(p, slot) ==
    LET offset == to_size_t(slot * p.out_cnt) IN
    IF to_size_t(offset + p.out_cnt) <= size(p)
    THEN Result(TRUE, p,
                get_cost_loop(p, [i \in 1..p.out_cnt |-> Ref_op(to_size_t(offset + i - 1))],
                              [i \in 1..size(p) |-> FALSE], 0))
    ELSE Result(FALSE, p, 0)

-----------------------------------------------------------------------------
(* Program::size_of *)

\* get(sizes, ref) of the unnamed namespace
get_size(sizes, ref) == IF is_input(ref) THEN 1 ELSE sizes[op_idx(ref) + 1]

\* a mutant of size_of_loop: a forward operation counts as a node of its own
RECURSIVE size_of_loop_fwd(_, _, _, _)
size_of_loop_fwd(p, ref, i, sizes) ==
    IF i <= op_idx(ref)
    THEN LET op == p.program[i + 1] IN
         size_of_loop_fwd(p, ref, i + 1,
             Append(sizes,
                    IF op.code = 0
                    THEN 1 + get_size(sizes, op.lhs)
                    ELSE 1 + get_size(sizes, op.lhs) + get_size(sizes, op.rhs)))
    ELSE sizes[Len(sizes)]

RECURSIVE size_of_loop(_, _, _, _)
size_of_loop(p, ref, i, sizes) ==
    IF i <= op_idx(ref)
    THEN LET op == p.program[i + 1] IN
         size_of_loop(p, ref, i + 1,
             Append(sizes,
                    IF op.code = 0
                    THEN get_size(sizes, op.lhs)
                    ELSE 1 + get_size(sizes, op.lhs) + get_size(sizes, op.rhs)))
    ELSE sizes[Len(sizes)]

size_of(p, ref) ==
    IF ~assert_valid(p, ref, size(p)) THEN Result(FALSE, p, 0)
    ELSE IF is_input(ref) THEN Result(TRUE, p, 1)
    ELSE Result(TRUE, p, size_of_loop(p, ref, 0, << >>))

-----------------------------------------------------------------------------
(* Program::as_string *)

\* make_string("expr(%zu nodes)", expr_size)
make_string_expr(expr_size) == << "expr(" \o ToString(expr_size) \o " nodes)" >>

\* make_string("i%zu", in_idx)
make_string_in(idx) == << "i" \o ToString(idx) >>

\* make_string("%s(%s,%s)", name, lhs, rhs)
make_string_op(name, lhs, rhs) == << name, "(" >> \o lhs \o << "," >> \o rhs \o << ")" >>

\* a mutant of as_string_rec: a forward operation is printed like any other
RECURSIVE as_string_rec_fwd(_, _)
as_string_rec_fwd(p, ref) ==
    LET expr_size == size_of(p, ref).ret IN
    IF expr_size > NodeLimit THEN make_string_expr(expr_size)
    ELSE IF is_input(ref) THEN make_string_in(in_idx(ref))
    ELSE LET my_op == p.program[op_idx(ref) + 1] IN
         make_string_op(name_of(p.repo, my_op.code),
                        as_string_rec_fwd(p, my_op.lhs),
                        as_string_rec_fwd(p, my_op.rhs))

\* a mutant of as_string_rec: the placeholder is printed above 900 nodes
RECURSIVE as_string_rec_900(_, _)
as_string_rec_900(p, ref) ==
    LET expr_size == size_of(p, ref).ret IN
    IF expr_size > 900 THEN make_string_expr(expr_size)
    ELSE IF is_input(ref) THEN make_string_in(in_idx(ref))
    ELSE LET my_op == p.program[op_idx(ref) + 1] IN
         IF my_op.code = 0
         THEN as_string_rec_900(p, my_op.lhs)
         ELSE make_string_op(name_of(p.repo, my_op.code),
                             as_string_rec_900(p, my_op.lhs),
                             as_string_rec_900(p, my_op.rhs))

RECURSIVE as_string_rec(_, _)
as_string_rec(p, ref) ==
    LET expr_size == size_of(p, ref).ret IN
    IF expr_size > NodeLimit THEN make_string_expr(expr_size)
    ELSE IF is_input(ref) THEN make_string_in(in_idx(ref))
    ELSE LET my_op == p.program[op_idx(ref) + 1] IN
         IF my_op.code = 0
         THEN as_string_rec(p, my_op.lhs)
         ELSE make_string_op(name_of(p.repo, my_op.code),
                             as_string_rec(p, my_op.lhs),
                             as_string_rec(p, my_op.rhs))

as_string(p, ref) ==
    IF ~assert_valid(p, ref, size(p)) THEN Result(FALSE, p, << >>)
    ELSE Result(TRUE, p, as_string_rec(p, ref))

-----------------------------------------------------------------------------
(* The calls on one Program *)

Call(op_in, arg_in, ok_in, ret_in) ==
    [op |-> op_in, arg |-> arg_in, ok |-> ok_in, ret |-> ret_in]

NoCall == Call("new", << >>, TRUE, 0)

\* no Population has been constructed
NoParams == [in_cnt |-> 0, out_cnt |-> 0, op_cnt |-> 0, pop_cnt |-> 0]

\* a call that changes the program, or fails an assert
Modify(name, arg, r) ==
    /\ ~aborted
    /\ prog' = r.prog
    /\ last' = Call(name, arg, r.ok, r.ret)
    /\ aborted' = ~r.ok
    /\ UNCHANGED popvars

\* the references a caller may pass: one beyond the valid ones on either side
SomeRefs(p) == (-(p.in_cnt + 1))..size(p)

AddOp ==
    /\ size(prog) < MaxLen
    /\ \E code \in 0..(max_op(prog.repo) + 1), lhs \in SomeRefs(prog), rhs \in SomeRefs(prog) :
          Modify("add_op", <<code, lhs, rhs>>, add_op(prog, code, lhs, rhs))

AddForward ==
    /\ size(prog) < MaxLen
    /\ \E ref \in SomeRefs(prog) :
          Modify("add_forward", <<ref>>, add_forward(prog, ref))

Grow ==
    \E op_cnt \in 0..MaxLen :
        \E r \in grow(prog, op_cnt) : Modify("grow", <<op_cnt>>, r)

Mutate ==
    /\ size(prog) > 0
    /\ \E p \in mutate(prog) : Modify("mutate", << >>, Result(TRUE, p, 0))

\* Program::mutate on a program without operations: rnd.get(0, -1) and the
\* access _program[mut_idx] are undefined.  The write goes through a pointer
\* outside the (empty) vector: the process dies, or it goes on with the
\* program as it was.
MutateEmpty ==
    /\ size(prog) = 0
    /\ \E ok \in BOOLEAN : Modify("mutate", << >>, Result(ok, prog, 0))

GetCost ==
    \E slot \in 0..MaxLen : Modify("get_cost", <<slot>>, get_cost(prog, slot))

SizeOf ==
    \E ref \in SomeRefs(prog) : Modify("size_of", <<ref>>, size_of(prog, ref))

AsString ==
    \E ref \in SomeRefs(prog) : Modify("as_string", <<ref>>, as_string(prog, ref))

Init ==
    /\ \E in_cnt \in InCnts, out_cnt \in OutCnts :
          prog = Program(my_repo, in_cnt, out_cnt, 0)
    /\ last = NoCall
    /\ aborted = FALSE
    /\ gen = 0
    /\ params = NoParams
    /\ programs = << >>
    /\ hook = << >>

Next ==
    \/ AddOp
    \/ AddForward
    \/ Grow
    \/ Mutate
    \/ MutateEmpty
    \/ GetCost
    \/ SizeOf
    \/ AsString

Spec == Init /\ [][Next]_vars

-----------------------------------------------------------------------------
(* Deep programs: chains in which every operation takes the operation      *)
(* before it as both operands, so that the expanded size doubles with      *)
(* every operation and passes the node limit of as_string.                 *)

\* the newest value of the program: its last operation, or input 0
newest(p) == IF size(p) = 0 THEN Ref_in(0) ELSE Ref_op(size(p) - 1)

forwards(p) == Cardinality({ i \in 1..size(p) : p.program[i].code = 0 })

DeepAddOp ==
    /\ size(prog) < MaxDeepLen
    /\ Modify("add_op", <<1, newest(prog), newest(prog)>>,
              add_op(prog, 1, newest(prog), newest(prog)))

DeepAddForward ==
    /\ size(prog) < MaxDeepLen
    /\ forwards(prog) < MaxDeepForwards
    /\ Modify("add_forward", <<newest(prog)>>, add_forward(prog, newest(prog)))

\* The expansion of a deep reference is long, and a query leaves the program
\* as it is: the chain is queried once after each operation added to it.
Built == last.op \in {"new", "add_op", "add_forward"}

DeepSizeOf == Built /\ SizeOf

DeepAsString == Built /\ AsString

InitDeep ==
    /\ prog = Program(my_repo, 1, 1, 0)
    /\ last = NoCall
    /\ aborted = FALSE
    /\ gen = 0
    /\ params = NoParams
    /\ programs = << >>
    /\ hook = << >>

NextDeep ==
    \/ DeepAddOp
    \/ DeepAddForward
    \/ DeepSizeOf
    \/ DeepAsString

SpecDeep == InitDeep /\ [][NextDeep]_vars

-----------------------------------------------------------------------------
(* Program::handle_feedback and OpRepo::find_weakness *)

\* a mutant of num_alternatives: the line the HACK replaced, one alternative for
\* each slot
num_alternatives_slots(p) == size(p) \div p.out_cnt

\* Program::num_alternatives (the HACK: always 1)
num_alternatives(p) == 1

\* the for loop of handle_feedback, from alternative i on
RECURSIVE handle_feedback_loop(_, _, _)
handle_feedback_loop(p, feedback, i) ==
    IF i < Len(feedback)
    THEN LET c == get_cost(p, i) IN
         IF ~c.ok THEN Result(FALSE, p, 0)
         ELSE LET stats == Stats(feedback[i + 1], c.ret, p.stats.born) IN
              IF Stats_lt(stats, p.stats)
              THEN handle_feedback_loop([p EXCEPT !.stats = stats, !.best_slot = i],
                                        feedback, i + 1)
              ELSE handle_feedback_loop(p, feedback, i + 1)
    ELSE Result(TRUE, p, 0)

\* a mutant of handle_feedback: the Stats stored are those of a program born in
\* generation 0
handle_feedback_born0(p, feedback) ==
    IF Len(feedback) # num_alternatives(p) THEN Result(FALSE, p, 0)
    ELSE IF num_alternatives(p) = 1
    THEN LET best == to_size_t(size(p) - p.out_cnt) \div p.out_cnt
             c == get_cost(p, best)
         IN  IF c.ok
             THEN Result(TRUE, [p EXCEPT !.best_slot = best,
                                         !.stats = Stats(feedback[1], c.ret, 0)], 0)
             ELSE Result(FALSE, p, 0)
    ELSE LET c == get_cost(p, 0) IN
         IF c.ok
         THEN handle_feedback_loop(
                  [p EXCEPT !.stats = Stats(feedback[1], c.ret, 0),
                            !.best_slot = 0], feedback, 1)
         ELSE Result(FALSE, p, 0)

\* Program::handle_feedback
handle_feedback(p, feedback) ==
    IF Len(feedback) # num_alternatives(p) THEN Result(FALSE, p, 0)
    ELSE IF num_alternatives(p) = 1
    THEN LET best == to_size_t(size(p) - p.out_cnt) \div p.out_cnt
             c == get_cost(p, best)
         IN  IF c.ok
             THEN Result(TRUE, [p EXCEPT !.best_slot = best,
                                         !.stats = Stats(feedback[1], c.ret, p.stats.born)], 0)
             ELSE Result(FALSE, p, 0)
    ELSE LET c == get_cost(p, 0) IN
         IF c.ok
         THEN handle_feedback_loop(
                  [p EXCEPT !.stats = Stats(feedback[1], c.ret, p.stats.born),
                            !.best_slot = 0], feedback, 1)
         ELSE Result(FALSE, p, 0)

\* OpRepo::find_weakness: the hook is a function of what the program computes,
\* which its operation list fixes
find_weakness(fun, sim) == handle_feedback(sim, fun[sim.program])

\* Program::reborn
reborn(p, gen_in) == [p EXCEPT !.stats.born = gen_in]

-----------------------------------------------------------------------------
(* Program::grow called with every target length up to one beyond MaxLen, on *)
(* the new program and on the programs that a call of grow has left          *)

GrowTo ==
    \E op_cnt \in 0..(MaxLen + 1) :
        \E r \in grow(prog, op_cnt) : Modify("grow", <<op_cnt>>, r)

\* Program::Program with one input, for each out_cnt followed
InitGrow ==
    /\ \E out_cnt \in OutCnts : prog = Program(my_repo, 1, out_cnt, 0)
    /\ last = NoCall
    /\ aborted = FALSE
    /\ gen = 0
    /\ params = NoParams
    /\ programs = << >>
    /\ hook = << >>

NextGrow == GrowTo

SpecGrow == InitGrow /\ [][NextGrow]_vars

-----------------------------------------------------------------------------
(* Program::execute *)

\* largest input value passed to execute
MaxValue == 1

\* a mutant of forward_op: the right operand is handed on, not the left
forward_op_rhs(lhs, rhs) == rhs

\* OpRepo::forward_op
forward_op(lhs, rhs) == lhs

\* my_add of the test; the values met stay far inside int
my_add(a, b) == a + b

\* the function an Entry of my_repo holds, by the name of the Entry
value_op2(name, lhs, rhs) ==
    IF name = "forward" THEN forward_op(lhs, rhs) ELSE my_add(lhs, rhs)

\* a mutant of perform: the operands are passed in the other order
perform_swapped(repo, op, lhs, rhs) == value_op2(repo[op + 1].name, rhs, lhs)

\* OpRepo::perform
perform(repo, op, lhs, rhs) == value_op2(repo[op + 1].name, lhs, rhs)

\* get(input, values, ref) of the unnamed namespace
get_value(input, values, ref) ==
    IF is_input(ref) THEN input[in_idx(ref) + 1] ELSE values[op_idx(ref) + 1]

\* a mutant of execute_loop: every completed group is recorded
RECURSIVE execute_loop_all(_, _, _, _, _, _)
execute_loop_all(p, input, i, values, out, result) ==
    IF i < size(p)
    THEN LET op == p.program[i + 1]
             value == perform(p.repo, op.code,
                              get_value(input, values, op.lhs),
                              get_value(input, values, op.rhs))
             values1 == Append(values, value)
             out1 == Append(out, value)
         IN  IF Len(out1) = p.out_cnt
             THEN execute_loop_all(p, input, i + 1, values1, << >>, Append(result, out1))
             ELSE execute_loop_all(p, input, i + 1, values1, out1, result)
    ELSE result

\* the for loop of Program::execute, from operation i on
RECURSIVE execute_loop(_, _, _, _, _, _)
execute_loop(p, input, i, values, out, result) ==
    IF i < size(p)
    THEN LET op == p.program[i + 1]
             value == perform(p.repo, op.code,
                              get_value(input, values, op.lhs),
                              get_value(input, values, op.rhs))
             values1 == Append(values, value)
             out1 == Append(out, value)
         IN  IF Len(out1) = p.out_cnt
             THEN execute_loop(p, input, i + 1, values1, << >>,
                               IF Len(values1) = size(p)
                               THEN Append(result, out1) ELSE result)
             ELSE execute_loop(p, input, i + 1, values1, out1, result)
    ELSE result

\* Program::execute
execute(p, input) == execute_loop(p, input, 0, << >>, << >>, << >>)

\* the inputs passed to a program: num_inputs() values
Inputs(p) == [1..p.in_cnt -> 0..MaxValue]

\* the Feedback vectors passed to handle_feedback: none, one or two weaknesses
Feedbacks == UNION { [1..n -> 0..MaxWeakness] : n \in 0..2 }

\* A call that reads the program leaves it as it is: the calls that change the
\* program are followed from the states that such a call has left.
Edited == last.op \notin {"execute", "get_cost"}

\* The operation list is edited before the program is scored: a scored program
\* is read, and scored again, as it is.
Unscored == Edited /\ last.op # "handle_feedback"

EvalAddOp == Unscored /\ AddOp

EvalMutate == Unscored /\ Mutate

EvalMutateEmpty == Unscored /\ MutateEmpty

HandleFeedback ==
    /\ Edited
    /\ \E feedback \in Feedbacks :
          Modify("handle_feedback", <<feedback>>, handle_feedback(prog, feedback))

Execute ==
    /\ Edited
    /\ \E input \in Inputs(prog) :
          Modify("execute", <<input>>, Result(TRUE, prog, execute(prog, input)))

EvalGetCost == Edited /\ GetCost

\* Program::Program for each in_cnt, out_cnt and generation followed
InitEval ==
    /\ \E in_cnt \in InCnts, out_cnt \in OutCnts, born \in 0..1 :
          prog = Program(my_repo, in_cnt, out_cnt, born)
    /\ last = NoCall
    /\ aborted = FALSE
    /\ gen = 0
    /\ params = NoParams
    /\ programs = << >>
    /\ hook = << >>

NextEval ==
    \/ EvalAddOp
    \/ EvalMutate
    \/ EvalMutateEmpty
    \/ HandleFeedback
    \/ Execute
    \/ EvalGetCost

SpecEval == InitEval /\ [][NextEval]_vars

-----------------------------------------------------------------------------
(* The catalog lookups called directly *)

\* the outcome of a lookup: ok is FALSE when the process died
Lookup(ok_in, ret_in) == [ok |-> ok_in, ret |-> ret_in]

\* name_of, cost_of and perform index _list with op and check nothing.  For
\* op > max_op() the read is beyond the end of the vector, which is undefined:
\* the process dies, or the call returns whatever lies there.
StrayNames == {"forward", ""}
StrayCosts == {0, SizeMod - 1}
StrayValues == {0, -1}

\* the codes a caller may pass: up to two beyond the last one
SomeCodes(repo) == 0..(max_op(repo) + 2)

\* the operand values passed to perform
SomeValues == (-MaxValue)..MaxValue

name_of_call(repo, op) ==
    IF op <= max_op(repo) THEN { Lookup(TRUE, name_of(repo, op)) }
    ELSE { Lookup(FALSE, "") } \cup { Lookup(TRUE, n) : n \in StrayNames }

cost_of_call(repo, op) ==
    IF op <= max_op(repo) THEN { Lookup(TRUE, cost_of(repo, op)) }
    ELSE { Lookup(FALSE, 0) } \cup { Lookup(TRUE, c) : c \in StrayCosts }

perform_call(repo, op, lhs, rhs) ==
    IF op <= max_op(repo) THEN { Lookup(TRUE, perform(repo, op, lhs, rhs)) }
    ELSE { Lookup(FALSE, 0) } \cup { Lookup(TRUE, v) : v \in StrayValues }

NameOf ==
    \E op \in SomeCodes(prog.repo) : \E r \in name_of_call(prog.repo, op) :
        Modify("name_of", <<op>>, Result(r.ok, prog, r.ret))

CostOf ==
    \E op \in SomeCodes(prog.repo) : \E r \in cost_of_call(prog.repo, op) :
        Modify("cost_of", <<op>>, Result(r.ok, prog, r.ret))

MaxOp == Modify("max_op", << >>, Result(TRUE, prog, max_op(prog.repo)))

Perform ==
    \E op \in SomeCodes(prog.repo), lhs \in SomeValues, rhs \in SomeValues :
        \E r \in perform_call(prog.repo, op, lhs, rhs) :
            Modify("perform", <<op, lhs, rhs>>, Result(r.ok, prog, r.ret))

\* a Program over the catalog as constructed, or with the operation "add" added
InitRepo ==
    /\ \E repo \in {OpRepo, my_repo} : prog = Program(repo, 1, 1, 0)
    /\ last = NoCall
    /\ aborted = FALSE
    /\ gen = 0
    /\ params = NoParams
    /\ programs = << >>
    /\ hook = << >>

NextRepo ==
    \/ NameOf
    \/ CostOf
    \/ MaxOp
    \/ Perform

SpecRepo == InitRepo /\ [][NextRepo]_vars

-----------------------------------------------------------------------------
(* my_div and my_mod of the test's catalog *)

\* INT_MIN and INT_MAX, at the width that stands for that of int (see SizeMod)
IntMin == -(SizeMod \div 2)
IntMax == SizeMod \div 2 - 1

\* largest magnitude of the small operands tried
MaxOperand == 2

\* the operands tried: both ends of int and the values around 0
SomeInts == {IntMin, IntMin + 1, IntMax} \cup ((-MaxOperand)..MaxOperand)

Abs(x) == IF x < 0 THEN -x ELSE x
Sign(x) == IF x < 0 THEN -1 ELSE IF x > 0 THEN 1 ELSE 0

\* the built-in a / b of int.  Division by zero and a quotient that int does not
\* hold are undefined: the process dies (SIGFPE) or the expression has some value.
int_div(a, b) ==
    IF b = 0 \/ (a = IntMin /\ b = -1)
    THEN { Lookup(FALSE, 0) } \cup { Lookup(TRUE, v) : v \in {0, IntMin} }
    ELSE { Lookup(TRUE, Sign(a) * Sign(b) * (Abs(a) \div Abs(b))) }

\* the built-in a % b of int: a - (a / b) * b, undefined where a / b is
int_mod(a, b) ==
    IF b = 0 \/ (a = IntMin /\ b = -1)
    THEN { Lookup(FALSE, 0) } \cup { Lookup(TRUE, v) : v \in {0, IntMin} }
    ELSE { Lookup(TRUE, Sign(a) * (Abs(a) % Abs(b))) }

\* a mutant of div_ok: only division by zero is refused
div_ok_zero(a, b) == b # 0

\* div_ok of the test
div_ok(a, b) == IF (a = IntMin) /\ (b = -1) THEN FALSE ELSE (b # 0)

my_div(a, b) == IF div_ok(a, b) THEN int_div(a, b) ELSE { Lookup(TRUE, 0) }

my_mod(a, b) == IF div_ok(a, b) THEN int_mod(a, b) ELSE { Lookup(TRUE, 0) }

\* a call of a function of the catalog on two ints
Arith(name, a, b, r) ==
    /\ ~aborted
    /\ last' = Call(name, <<a, b>>, r.ok, r.ret)
    /\ aborted' = ~r.ok
    /\ UNCHANGED <<prog, gen, params, programs, hook>>

MyDiv == \E a \in SomeInts, b \in SomeInts : \E r \in my_div(a, b) : Arith("my_div", a, b, r)

MyMod == \E a \in SomeInts, b \in SomeInts : \E r \in my_mod(a, b) : Arith("my_mod", a, b, r)

NextArith ==
    \/ MyDiv
    \/ MyMod

SpecArith == InitDeep /\ [][NextArith]_vars

-----------------------------------------------------------------------------
(* Stats::operator< called directly *)

\* the Stats compared: every weakness the hook reports and NaN, two costs, and
\* every generation followed
SomeStats ==
    { Stats(w, c, b) : w \in (0..MaxWeakness) \cup {NaN}, c \in 0..1, b \in 0..MaxGen }

\* the comparisons made of three Stats a, b and c
Compared(a, b, c) ==
    [aa |-> Stats_lt(a, a), ab |-> Stats_lt(a, b), ba |-> Stats_lt(b, a),
     bc |-> Stats_lt(b, c), ac |-> Stats_lt(a, c)]

\* a comparison reads its operands and changes nothing: each is made once
Compare ==
    /\ last = NoCall
    /\ \E a \in SomeStats, b \in SomeStats, c \in SomeStats :
          last' = Call("operator<", <<a, b, c>>, TRUE, Compared(a, b, c))
    /\ UNCHANGED <<prog, aborted, gen, params, programs, hook>>

NextOrder == Compare

SpecOrder == InitDeep /\ [][NextOrder]_vars

-----------------------------------------------------------------------------
(* Population *)

Params(in_cnt_in, out_cnt_in, op_cnt_in, pop_cnt_in) ==
    [in_cnt |-> in_cnt_in, out_cnt |-> out_cnt_in,
     op_cnt |-> op_cnt_in, pop_cnt |-> pop_cnt_in]

\* a mutant of sorted_orders: the sequence is left as it is
unsorted(seq) == {seq}

\* the places at which x may enter the sorted sequence t
RECURSIVE sorted_orders(_)
inserts(x, t) ==
    { SubSeq(t, 1, k) \o << x >> \o SubSeq(t, k + 1, Len(t)) :
        k \in { k \in 0..Len(t) :
                  /\ \A j \in 1..k : ~Program_lt(x, t[j])
                  /\ \A j \in (k + 1)..Len(t) : ~Program_lt(t[j], x) } }

\* std::sort(_programs.begin(), _programs.end()): std::sort is not stable, so the
\* result is any permutation in which no program is before a better one
sorted_orders(seq) ==
    IF seq = << >> THEN { << >> }
    ELSE UNION { inserts(Head(seq), t) : t \in sorted_orders(Tail(seq)) }

\* the result of a step of a Population: ok is FALSE when the process died
PopResult(ok_in, progs, ret_in) == [ok |-> ok_in, programs |-> progs, ret |-> ret_in]

\* the while loop of Population::grow: all results
RECURSIVE Population_grow_loop(_, _, _, _)
Population_grow_loop(progs, par, g, fun) ==
    IF Len(progs) < par.pop_cnt
    THEN UNION { IF ~r.ok THEN {PopResult(FALSE, progs, 0)}
                 ELSE LET e == find_weakness(fun, r.prog) IN
                      IF ~e.ok THEN {PopResult(FALSE, progs, 0)}
                      ELSE Population_grow_loop(Append(progs, e.prog), par, g, fun)
                 : r \in grow(Program(my_repo, par.in_cnt, par.out_cnt, g), par.op_cnt) }
    ELSE {PopResult(TRUE, progs, 0)}

\* Population::grow
Population_grow(progs, par, g, fun) ==
    UNION { IF r.ok THEN { PopResult(TRUE, s, 0) : s \in sorted_orders(r.programs) }
            ELSE {r}
            : r \in Population_grow_loop(progs, par, g, fun) }

\* a mutant of select_index: the larger of the two draws
select_index_max(d1, d2) == IF d1 < d2 THEN d2 ELSE d1

\* Population::select: the index taken for the draws d1 and d2
select_index(d1, d2) == Min(d1, d2)

\* the indices select(limit) can take
select(limit) == { select_index(d1, d2) : d1 \in get(0, limit - 1), d2 \in get(0, limit - 1) }

\* the do/while loop of Population::mutate: the programs after up to k rounds,
\* from the programs S after one round
RECURSIVE mutate_rounds(_, _)
mutate_rounds(S, k) ==
    IF k <= 1 THEN S
    ELSE S \cup mutate_rounds(UNION { mutate(p) : p \in S }, k - 1)

\* a mutant of Population_mutate: the copy keeps the birth generation of a
Population_mutate_noreborn(a, g) == mutate_rounds(mutate(a), MaxMutRounds)

\* Population::mutate
Population_mutate(a, g) ==
    { reborn(p, g) : p \in mutate_rounds(mutate(a), MaxMutRounds) }

\* a mutant of offspring: the program pushed is not evaluated
offspring_unscored(fun, a, g) == { Result(TRUE, child, 0) : child \in Population_mutate(a, g) }

\* the body of the second while loop of Population::tick for the parent a:
\* mutate(a) is pushed and find_weakness runs on it
offspring(fun, a, g) == { find_weakness(fun, child) : child \in Population_mutate(a, g) }

\* a mutant of apex: the programs kept are the last apex_cnt, not the first
apex_last(progs, apex_cnt) ==
    SubSeq(progs, Len(progs) - Min(apex_cnt, Len(progs)) + 1, Len(progs))

\* the first while loop of Population::tick: pop_back down to apex_cnt programs
apex(progs, apex_cnt) == SubSeq(progs, 1, Min(apex_cnt, Len(progs)))

\* a mutant of tick_loop: the loop stops one program short of pop_cnt
RECURSIVE tick_loop_short(_, _, _, _, _)
tick_loop_short(progs, parents, par, g, fun) ==
    IF Len(progs) < par.pop_cnt - 1
    THEN UNION { UNION { IF ~e.ok THEN {PopResult(FALSE, progs, parents)}
                         ELSE tick_loop_short(Append(progs, e.prog), Append(parents, idx),
                                 par, g, fun)
                         : e \in offspring(fun, progs[idx + 1], g) }
                 : idx \in select(par.pop_cnt \div 10) }
    ELSE {PopResult(TRUE, progs, parents)}

\* the second while loop of Population::tick: all results, with the index that
\* select took for each program pushed
RECURSIVE tick_loop(_, _, _, _, _)
tick_loop(progs, parents, par, g, fun) ==
    IF Len(progs) < par.pop_cnt
    THEN UNION { UNION { IF ~e.ok THEN {PopResult(FALSE, progs, parents)}
                         ELSE tick_loop(Append(progs, e.prog), Append(parents, idx),
                                 par, g, fun)
                         : e \in offspring(fun, progs[idx + 1], g) }
                 : idx \in select(par.pop_cnt \div 10) }
    ELSE {PopResult(TRUE, progs, parents)}

\* a mutant of tick: the programs kept from the generation before are dropped
\* once the new programs are made
tick_no_elite(progs, par, g, fun) ==
    UNION { IF r.ok
            THEN { PopResult(TRUE, s, r.ret)
                   : s \in sorted_orders(SubSeq(r.programs, par.pop_cnt \div 10 + 1,
                                                Len(r.programs))) }
            ELSE {r}
            : r \in tick_loop(apex(progs, par.pop_cnt \div 10), << >>, par, g + 1, fun) }

\* Population::tick on a population that keeps at least one program
tick(progs, par, g, fun) ==
    UNION { IF r.ok THEN { PopResult(TRUE, s, r.ret) : s \in sorted_orders(r.programs) }
            ELSE {r}
            : r \in tick_loop(apex(progs, par.pop_cnt \div 10), << >>, par, g + 1, fun) }

\* the operation lists a Population with these Params can hold
shapes(par) ==
    { r.prog.program : r \in grow(Program(my_repo, par.in_cnt, par.out_cnt, 0), par.op_cnt) }

\* the fitness hooks: one Feedback, of one weakness, for each operation list
hooks(par) == [shapes(par) -> { << w >> : w \in 0..MaxWeakness }]

\* the Params of the populations followed; pop_cnt / 10 >= 1
PopParams == { Params(1, 1, 1, 10) }

\* a step of the Population
PopStep(name, arg, r) ==
    /\ ~aborted
    /\ programs' = r.programs
    /\ last' = Call(name, arg, r.ok, r.ret)
    /\ aborted' = ~r.ok
    /\ UNCHANGED <<prog, params, hook>>

\* Population::tick.  A select() made from outside draws from the random stream
\* and changes nothing else, so the ticks that follow one are the ticks that
\* would have followed without it: they are not followed a second time.
Tick ==
    /\ gen < MaxGen
    /\ last.op \in {"Population", "tick"}
    /\ params.pop_cnt \div 10 >= 1
    /\ gen' = gen + 1
    /\ \E r \in tick(programs, params, gen, hook) : PopStep("tick", << >>, r)

\* select(limit) for a limit the population covers
Select ==
    /\ last.op # "select"
    /\ UNCHANGED gen
    /\ \E limit \in 1..Min(MaxSelectLimit, Len(programs)) :
          \E d1 \in get(0, limit - 1), d2 \in get(0, limit - 1) :
              PopStep("select", <<limit, d1, d2>>,
                      PopResult(TRUE, programs, select_index(d1, d2)))

\* Population::Population: grow() from no program, then the assert on the size
Population(par, fun) ==
    { IF r.ok /\ Len(r.programs) # par.pop_cnt THEN PopResult(FALSE, r.programs, 0) ELSE r
      : r \in Population_grow(<< >>, par, 0, fun) }

InitPopulation(parset) ==
    /\ prog = Program(my_repo, 1, 1, 0)
    /\ gen = 0
    /\ params \in parset
    /\ hook \in hooks(params)
    /\ \E r \in Population(params, hook) :
          /\ programs = r.programs
          /\ aborted = ~r.ok
          /\ last = Call("Population", << >>, r.ok, 0)

InitPop == InitPopulation(PopParams)

NextPop ==
    \/ Tick
    \/ Select

SpecPop == InitPop /\ [][NextPop]_vars

-----------------------------------------------------------------------------
(* A program of the population, copied and edited through the interface of   *)
(* Program.  The population is followed from the states in which no copy has *)
(* been taken, and each copy is edited once.                                 *)

\* Program(const Program &): prog becomes a copy of the best or of the worst
\* of the stored programs
Copy ==
    /\ ~aborted
    /\ last.op \in {"Population", "tick"}
    /\ \E i \in {1, Len(programs)} :
          /\ prog' = programs[i]
          /\ last' = Call("copy", << >>, TRUE, 0)
    /\ UNCHANGED <<aborted, gen, params, programs, hook>>

Copied == last.op = "copy"

EditAddOp == Copied /\ AddOp

EditGrow == Copied /\ Grow

EditMutate == Copied /\ Mutate

NextPopEdit ==
    \/ Tick
    \/ Copy
    \/ EditAddOp
    \/ EditGrow
    \/ EditMutate

SpecPopEdit == InitPop /\ [][NextPopEdit]_vars

-----------------------------------------------------------------------------
(* Population::mutate called on a copy of a stored program, and on such a copy *)
(* with one more operation                                                     *)

\* the programs after exactly n calls of Program::mutate, from the programs S
RECURSIVE mutate_times(_, _)
mutate_times(S, n) ==
    IF n = 0 THEN S
    ELSE mutate_times(UNION { mutate(p) : p \in S }, n - 1)

\* a mutant of mutate_round_counts: a while loop, which may not run at all
mutate_round_counts_while == 0..MaxMutRounds

\* the do/while loop of Population::mutate: the numbers of rounds it can make
mutate_round_counts == 1..MaxMutRounds

\* Population::mutate(prog): the call returns the new program, kept in last.ret
\* with the number of rounds the loop made before it
PopMutate ==
    /\ ~aborted
    /\ last.op \in {"copy", "add_op"}
    /\ size(prog) > 0
    /\ \E n \in mutate_round_counts :
          \E new_prog \in { reborn(q, gen) : q \in mutate_times({prog}, n) } :
              last' = Call("Population_mutate", << >>, TRUE, <<n, new_prog>>)
    /\ UNCHANGED <<prog, aborted, gen, params, programs, hook>>

NextPopMutate ==
    \/ Tick
    \/ Copy
    \/ EditAddOp
    \/ PopMutate

\* Population::mutate does not call the fitness hook: the populations followed
\* are those of the hook that finds every program of weakness 0
InitPopMutate ==
    /\ InitPop
    /\ \A ops \in DOMAIN hook : hook[ops] = << 0 >>

SpecPopMutate == InitPopMutate /\ [][NextPopMutate]_vars

-----------------------------------------------------------------------------
(* Populations of fewer than ten programs: pop_cnt / 10 is 0, tick() pops every *)
(* program and calls select(0).                                                *)

\* the second while loop of Population::tick when select reads a destroyed
\* program: kids holds what mutate and find_weakness make of the programs the
\* first loop destroyed, whose storage the vector still owns.  The index read is
\* no index of the vector: -1 stands for it.
RECURSIVE tick_loop_stale(_, _, _, _)
tick_loop_stale(progs, parents, kids, par) ==
    IF Len(progs) < par.pop_cnt
    THEN UNION { IF ~e.ok THEN {PopResult(FALSE, progs, parents)}
                 ELSE tick_loop_stale(Append(progs, e.prog), Append(parents, -1),
                                      kids, par)
                 : e \in kids }
    ELSE {PopResult(TRUE, progs, parents)}

\* Population::tick with apex_cnt = 0.  select(0) calls rnd.get(0, -1) and indexes
\* the emptied vector, both undefined: the process dies on the access, or the
\* access reads one of the destroyed programs and the tick goes on with it.
tick_no_apex(progs, par, g, fun) ==
    LET kids == UNION { offspring(fun, progs[k], g + 1) : k \in 1..Len(progs) } IN
    {PopResult(FALSE, << >>, << >>)}
    \cup UNION { IF r.ok THEN { PopResult(TRUE, s, r.ret) : s \in sorted_orders(r.programs) }
                 ELSE {r}
                 : r \in tick_loop_stale(<< >>, << >>, kids, par) }

TickNoApex ==
    /\ gen < MaxGen
    /\ last.op # "select"
    /\ params.pop_cnt \div 10 = 0
    /\ gen' = gen + 1
    /\ \E r \in tick_no_apex(programs, params, gen, hook) : PopStep("tick", << >>, r)

\* Params with pop_cnt from 1 on
AnyPopParams == PopParams \cup { Params(1, 1, 1, 1), Params(1, 1, 1, 9) }

InitAnyPop == InitPopulation(AnyPopParams)

NextAnyPop ==
    \/ Tick
    \/ TickNoApex
    \/ Select

SpecAnyPop == InitAnyPop /\ [][NextAnyPop]_vars

-----------------------------------------------------------------------------
(* Properties of one Program *)

\* the operation references of operation i (0-based) that the operation uses
operands(p, i) == {p.program[i + 1].lhs, p.program[i + 1].rhs}

\* C1 (acyclicity): whatever calls of add_op, add_forward, grow and mutate were
\* made, with whatever draws, both operands of the operation at position i are an
\* input below in_cnt or an operation strictly before i.
C1_Acyclic ==
    \A i \in 0..(size(prog) - 1) : \A ref \in operands(prog, i) :
        \/ is_input(ref) /\ in_idx(ref) < prog.in_cnt
        \/ is_operation(ref) /\ op_idx(ref) < i

\* a mutate call has just set an operand of the last operation to the operation
\* right before it
C1_Witness ==
    /\ last.op = "mutate"
    /\ last.ok
    /\ size(prog) = MaxLen
    /\ prog.program[MaxLen].lhs = Ref_op(MaxLen - 2)
    /\ \E i \in 1..size(prog) : prog.program[i].code = 0

\* the operations a set of operations uses: the left operand of a forward, both
\* operands of any other operation
uses(p, S) ==
    UNION { { op_idx(ref) : ref \in { r \in (IF p.program[i + 1].code = 0
                                            THEN {p.program[i + 1].lhs}
                                            ELSE operands(p, i)) : is_operation(r) } }
            : i \in S }

RECURSIVE reachable(_, _)
reachable(p, S) == IF uses(p, S) \subseteq S THEN S ELSE reachable(p, S \cup uses(p, S))

RECURSIVE catalog_cost(_, _)
catalog_cost(p, S) ==
    IF S = {} THEN 0
    ELSE LET i == CHOOSE x \in S : TRUE IN
         cost_of(p.repo, p.program[i + 1].code) + catalog_cost(p, S \ {i})

outputs(p, slot) == { slot * p.out_cnt + k : k \in 0..(p.out_cnt - 1) }

\* C6: get_cost(slot) runs for exactly the slots that lie within the program, and
\* returns the sum of the catalog costs over the set of operations reachable from
\* the outputs of the slot, each counted once.
C6_GetCost ==
    last.op = "get_cost" =>
        LET slot == last.arg[1] IN
        /\ last.ok <=> (slot * prog.out_cnt + prog.out_cnt <= size(prog))
        /\ last.ok => last.ret = catalog_cost(prog, reachable(prog, outputs(prog, slot)))

\* get_cost has run on a slot whose output uses one earlier operation twice
C6_Witness ==
    /\ last.op = "get_cost"
    /\ last.ok
    /\ last.ret = 2
    /\ \E i \in outputs(prog, last.arg[1]) :
          /\ prog.program[i + 1].code > 0
          /\ prog.program[i + 1].lhs = prog.program[i + 1].rhs
          /\ is_operation(prog.program[i + 1].lhs)

\* the size of the expression a reference stands for, written out as a tree
RECURSIVE tree_size(_, _)
tree_size(p, ref) ==
    IF is_input(ref) THEN 1
    ELSE LET op == p.program[op_idx(ref) + 1] IN
         IF op.code = 0 THEN tree_size(p, op.lhs)
         ELSE 1 + tree_size(p, op.lhs) + tree_size(p, op.rhs)

valid_ref(p, ref) ==
    \/ is_input(ref) /\ in_idx(ref) < p.in_cnt
    \/ is_operation(ref) /\ op_idx(ref) < size(p)

\* C7: size_of(ref) runs for exactly the valid references and returns the size of
\* the expanded tree: 1 for an input, the size of the left child for a forward,
\* 1 + size(left) + size(right) otherwise, shared subexpressions counted each time.
C7_SizeOf ==
    last.op = "size_of" =>
        /\ last.ok <=> valid_ref(prog, last.arg[1])
        /\ last.ok => last.ret = tree_size(prog, last.arg[1])

\* size_of has run on an operation that uses an earlier non-forward operation as
\* both operands: the operation is counted twice
C7_Witness ==
    /\ last.op = "size_of"
    /\ last.ok
    /\ is_operation(last.arg[1])
    /\ LET op == prog.program[op_idx(last.arg[1]) + 1] IN
       /\ op.code > 0
       /\ op.lhs = op.rhs
       /\ is_operation(op.lhs)
       /\ prog.program[op_idx(op.lhs) + 1].code > 0
       /\ last.ret = 7

\* the pieces of a rendered string that stand for a node: the name of a catalog
\* operation, or the token of an input
is_node_token(p, t) ==
    \/ \E code \in 1..max_op(p.repo) : t = name_of(p.repo, code)
    \/ \E idx \in 0..(p.in_cnt - 1) : <<t>> = make_string_in(idx)

count_nodes(p, str) == Cardinality({ k \in 1..Len(str) : is_node_token(p, str[k]) })

\* C8: for a valid reference of size at most 9000, the number of node tokens in
\* the string as_string returns is size_of of the reference.
C8_RoundTrip ==
    (last.op = "as_string" /\ last.ok /\ size_of(prog, last.arg[1]).ret <= NodeLimit) =>
        count_nodes(prog, last.ret) = size_of(prog, last.arg[1]).ret

\* as_string has run on an operation with thousands of nodes, below the limit,
\* in a chain that holds a forward
C8_Witness ==
    /\ last.op = "as_string"
    /\ last.ok
    /\ is_operation(last.arg[1])
    /\ size_of(prog, last.arg[1]).ret > 4000
    /\ size_of(prog, last.arg[1]).ret <= NodeLimit
    /\ \E i \in 0..op_idx(last.arg[1]) : prog.program[i + 1].code = 0

\* the full expansion of a reference, whatever its size
RECURSIVE expansion(_, _)
expansion(p, ref) ==
    IF is_input(ref) THEN << "i" \o ToString(in_idx(ref)) >>
    ELSE LET op == p.program[op_idx(ref) + 1] IN
         IF op.code = 0 THEN expansion(p, op.lhs)
         ELSE << name_of(p.repo, op.code), "(" >> \o expansion(p, op.lhs)
                  \o << "," >> \o expansion(p, op.rhs) \o << ")" >>

\* C9: as_string(ref) returns the placeholder "expr(N nodes)", N = size_of(ref),
\* exactly when size_of(ref) > 9000, and the full expansion otherwise, with no
\* placeholder inside it.
C9_Placeholder ==
    (last.op = "as_string" /\ last.ok) =>
        LET n == size_of(prog, last.arg[1]).ret IN
        IF n > 9000
        THEN last.ret = << "expr(" \o ToString(n) \o " nodes)" >>
        ELSE last.ret = expansion(prog, last.arg[1])

\* as_string has printed a placeholder for the newest operation of a chain, whose
\* operand is itself below the limit
C9_Witness ==
    /\ last.op = "as_string"
    /\ last.ok
    /\ last.arg[1] = newest(prog)
    /\ size(prog) > 1
    /\ Len(last.ret) = 1
    /\ size_of(prog, last.arg[1]).ret > 9000
    /\ size_of(prog, Ref_op(size(prog) - 2)).ret <= 9000

\* slot t holds nothing but forwards of the outputs of slot s, all of them
forwards_of(p, t, s) ==
    /\ \A i \in outputs(p, t) :
          /\ p.program[i + 1].code = 0
          /\ p.program[i + 1].lhs \in { Ref_op(j) : j \in outputs(p, s) }
    /\ \A j \in outputs(p, s) : \E i \in outputs(p, t) : p.program[i + 1].lhs = Ref_op(j)

slots(p) == { t \in 0..size(p) : t * p.out_cnt + p.out_cnt <= size(p) }

\* C10: the reference f that add_forward(r) returns has the string and the size of
\* r, and a slot made of forwards of the outputs of a slot s has the cost of s.
C10_Forward ==
    /\ (last.op = "add_forward" /\ last.ok) =>
          /\ as_string(prog, last.ret) = as_string(prog, last.arg[1])
          /\ size_of(prog, last.ret) = size_of(prog, last.arg[1])
          /\ as_string(prog, last.ret).ok
          /\ size_of(prog, last.ret).ok
    /\ \A t \in slots(prog), s \in slots(prog) :
          forwards_of(prog, t, s) => get_cost(prog, t) = get_cost(prog, s)

\* add_forward has just forwarded a non-forward operation, and the forward is a
\* slot of its own
C10_Witness ==
    /\ last.op = "add_forward"
    /\ last.ok
    /\ is_operation(last.arg[1])
    /\ prog.program[op_idx(last.arg[1]) + 1].code > 0
    /\ prog.out_cnt = 1
    /\ forwards_of(prog, op_idx(last.ret), op_idx(last.arg[1]))
    /\ get_cost(prog, op_idx(last.ret)).ret = 1

-----------------------------------------------------------------------------
(* Properties of a Population *)

apex_cnt == params.pop_cnt \div 10

\* C2 (population order): after the construction (grow()) and after every tick(),
\* no program is strictly better than the program stored right before it.
C2_Sorted ==
    ~aborted =>
        \A i \in 1..(Len(programs) - 1) : ~Program_lt(programs[i + 1], programs[i])

\* a tick has left programs of three different Stats, a program born in this
\* generation first and a program kept from an earlier generation after it
C2_Witness ==
    /\ last.op = "tick"
    /\ last.ok
    /\ programs[1].stats.born = gen
    /\ \E i \in 2..Len(programs) : programs[i].stats.born < gen
    /\ Cardinality({ programs[i].stats : i \in 1..Len(programs) }) >= 3

\* C3 (elitism): each of the pop_cnt / 10 first programs held before a tick() is in
\* the population after it, with its operation list, weakness, cost and birth
\* generation as they were.
C3_Elitism ==
    [][ (gen' = gen + 1 /\ ~aborted') =>
            \A i \in 1..apex_cnt : \E j \in 1..Len(programs') :
                /\ programs'[j].program = programs[i].program
                /\ programs'[j].stats = programs[i].stats
                /\ programs'[j] = programs[i] ]_vars

\* after the second tick, the program kept by it is one born in the first
\* generation, and it is no longer the first of the population
C3_Witness ==
    /\ last.op = "tick"
    /\ last.ok
    /\ gen = 2
    /\ programs[1].stats.born = 2
    /\ \E j \in 2..Len(programs) : programs[j].stats.born = 1

well_formed(p) ==
    /\ size(p) = params.op_cnt
    /\ p.in_cnt = params.in_cnt
    /\ p.out_cnt = params.out_cnt

-----------------------------------------------------------------------------
(* Program::add_op and its asserts *)

\* the operand is one add_op rejects on a program of in_cnt inputs and len operations
bad_operand(ref, in_cnt, len) ==
    \/ is_input(ref) /\ in_idx(ref) >= in_cnt
    \/ is_operation(ref) /\ op_idx(ref) >= len

\* C18: add_op(code, lhs, rhs) fails an assert when code > max_op(), when an input
\* operand has index >= in_cnt or when an operation operand has index >= the
\* program length, and then no operation is appended; otherwise it appends
\* exactly the operation (code, lhs, rhs) and returns the reference to the
\* previous length.
C18_AddOp ==
    [][ last'.op = "add_op" =>
          LET code == last'.arg[1]
              lhs  == last'.arg[2]
              rhs  == last'.arg[3]
              bad  == \/ code > max_op(prog.repo)
                      \/ bad_operand(lhs, prog.in_cnt, size(prog))
                      \/ bad_operand(rhs, prog.in_cnt, size(prog))
          IN  IF bad
              THEN /\ ~last'.ok
                   /\ aborted'
                   /\ prog' = prog
              ELSE /\ last'.ok
                   /\ ~aborted'
                   /\ prog' = [prog EXCEPT !.program = Append(@, Op(code, lhs, rhs))]
                   /\ size(prog') = size(prog) + 1
                   /\ last'.ret = Ref_op(size(prog)) ]_vars

\* add_op has failed on a program of one operation for nothing but a right
\* operand that names the position the new operation would take
C18_Witness ==
    /\ last.op = "add_op"
    /\ ~last.ok
    /\ aborted
    /\ size(prog) = 1
    /\ last.arg[1] <= max_op(prog.repo)
    /\ ~bad_operand(last.arg[2], prog.in_cnt, size(prog))
    /\ last.arg[3] = Ref_op(size(prog))

-----------------------------------------------------------------------------
(* Properties of execute and handle_feedback *)

\* the programs that differ from p at most in the right operand of operations of
\* code 0, every such operand being a valid one for its position
variants(p) ==
    { [p EXCEPT !.program = [i \in 1..size(p) |-> [p.program[i] EXCEPT !.rhs = f[i]]]] :
        f \in { g \in [1..size(p) -> (-p.in_cnt)..(size(p) - 2)] :
                  \A i \in 1..size(p) :
                      IF p.program[i].code = 0 THEN g[i] <= i - 2
                      ELSE g[i] = p.program[i].rhs } }

\* C11: two valid programs that differ only in the right operand of operations
\* of code 0 give the same execute result on every input, the same get_cost for
\* every slot, and the same size_of and as_string for every reference.
C11_ForwardRhs ==
    \A q \in variants(prog) :
        /\ last.op = "execute" => execute(q, last.arg[1]) = last.ret
        /\ last.op = "get_cost" =>
              /\ get_cost(q, last.arg[1]).ok = last.ok
              /\ get_cost(q, last.arg[1]).ret = last.ret
        /\ last.op \in {"new", "add_op", "mutate"} /\ ~aborted =>
              \A ref \in SomeRefs(prog) :
                  /\ size_of(q, ref).ok = size_of(prog, ref).ok
                  /\ size_of(q, ref).ret = size_of(prog, ref).ret
                  /\ as_string(q, ref).ok = as_string(prog, ref).ok
                  /\ as_string(q, ref).ret = as_string(prog, ref).ret

\* execute has run on a program that ends in an operation of code 0 whose right
\* operand is an operation of cost 1 that its left operand does not lead to
C11_Witness ==
    /\ last.op = "execute"
    /\ size(prog) = 2
    /\ prog.program[1].code = 1
    /\ prog.program[2].code = 0
    /\ is_input(prog.program[2].lhs)
    /\ prog.program[2].rhs = Ref_op(0)
    /\ Cardinality(variants(prog)) > 1

\* the value of a reference on an input, by the expression it stands for
RECURSIVE value_of(_, _, _)
value_of(p, input, ref) ==
    IF is_input(ref) THEN input[in_idx(ref) + 1]
    ELSE LET op == p.program[op_idx(ref) + 1] IN
         IF op.code = 0 THEN value_of(p, input, op.lhs)
         ELSE value_of(p, input, op.lhs) + value_of(p, input, op.rhs)

\* the length of the program is a positive multiple of out_cnt
whole_slots(p) == size(p) > 0 /\ size(p) % p.out_cnt = 0

\* the slots whose group of values execute returns, in the order of the Result
returned_slots(p) == IF whole_slots(p) THEN << size(p) \div p.out_cnt - 1 >> ELSE << >>

\* C15: execute(input) on a program whose length is a positive multiple of
\* out_cnt returns num_alternatives() = 1 output vector, of length out_cnt, that
\* holds in order the values of the last out_cnt operations.
C15_Execute ==
    (last.op = "execute" /\ whole_slots(prog)) =>
        LET input == last.arg[1] IN
        /\ last.ok
        /\ Len(last.ret) = num_alternatives(prog)
        /\ Len(last.ret) = 1
        /\ Len(last.ret[1]) = prog.out_cnt
        /\ \A k \in 1..prog.out_cnt :
              last.ret[1][k] = value_of(prog, input, Ref_op(size(prog) - prog.out_cnt + k - 1))

\* execute has run on a program of two slots whose first slot computes another
\* value than its last slot
C15_Witness ==
    /\ last.op = "execute"
    /\ prog.out_cnt = 1
    /\ size(prog) = 2
    /\ Len(last.ret) = 1
    /\ last.ret[1][1] # value_of(prog, last.arg[1], Ref_op(0))

\* the cost of a slot: the catalog costs of the operations its outputs lead to
slot_cost(p, slot) == catalog_cost(p, reachable(p, outputs(p, slot)))

\* after a handle_feedback that returned: no slot that has a weakness (the k-th
\* weakness is that of the k-th group execute returns) gives Stats strictly
\* better than the stored ones, and _best_slot is a slot of the program whose
\* Stats are the stored ones
best_slot_holds(p, feedback) ==
    /\ \A k \in 1..Min(Len(feedback), Len(returned_slots(p))) :
          ~Stats_lt(Stats(feedback[k], slot_cost(p, returned_slots(p)[k]), p.stats.born),
                    p.stats)
    /\ p.best_slot \in slots(p)
    /\ \E k \in 1..Len(feedback) :
          p.stats = Stats(feedback[k], slot_cost(p, p.best_slot), p.stats.born)

\* C12 as stated: after handle_feedback, whatever the program, no slot's Stats
\* (its weakness, get_cost of the slot) is strictly better than the stored Stats,
\* and _best_slot names a slot attaining the stored Stats.
C12_Always ==
    (last.op = "handle_feedback" /\ last.ok) => best_slot_holds(prog, last.arg[1])

\* The same holds on every program that holds at least one complete slot
\* (length >= out_cnt).
C12_BestSlot ==
    (last.op = "handle_feedback" /\ last.ok /\ size(prog) >= prog.out_cnt) =>
        best_slot_holds(prog, last.arg[1])

\* C13: handle_feedback(feedback) with one weakness, on a program whose length L
\* is a positive multiple of out_cnt, returns with _best_slot = L / out_cnt - 1,
\* the stored weakness feedback[0] and the stored cost that of the last slot.
C13_LastSlot ==
    (last.op = "handle_feedback" /\ Len(last.arg[1]) = 1 /\ whole_slots(prog)) =>
        LET lst == size(prog) \div prog.out_cnt - 1 IN
        /\ last.ok
        /\ prog.best_slot = lst
        /\ prog.stats.weakness = last.arg[1][1]
        /\ prog.stats.cost = slot_cost(prog, lst)
        /\ prog.stats.cost = get_cost(prog, lst).ret

\* handle_feedback has run on a program of two slots of different cost
C13_Witness ==
    /\ last.op = "handle_feedback"
    /\ Len(last.arg[1]) = 1
    /\ whole_slots(prog)
    /\ Cardinality(slots(prog)) = 2
    /\ slot_cost(prog, 0) # slot_cost(prog, 1)
    /\ prog.stats.weakness = 1

\* C14: a handle_feedback call leaves the birth generation, the operation list,
\* in_cnt and out_cnt (and the catalog) of the program as they were.
C14_Frame ==
    [][ last'.op = "handle_feedback" =>
          /\ prog'.stats.born = prog.stats.born
          /\ prog'.program = prog.program
          /\ prog'.in_cnt = prog.in_cnt
          /\ prog'.out_cnt = prog.out_cnt
          /\ prog'.repo = prog.repo ]_vars

\* handle_feedback has set weakness, cost and best slot of a program born in
\* generation 1 to other values than a new program has
C14_Witness ==
    /\ last.op = "handle_feedback"
    /\ last.ok
    /\ prog.stats.born = 1
    /\ prog.stats.weakness # 0
    /\ prog.stats.cost # 0
    /\ prog.best_slot # 0

-----------------------------------------------------------------------------
(* Properties of the catalog *)

\* what a lookup with this code in range has to return
looked_up(repo, call) ==
    LET code == call.arg[1] IN
    IF call.op = "name_of" THEN repo[code + 1].name
    ELSE IF call.op = "cost_of" THEN repo[code + 1].cost
    ELSE IF code = 0 THEN call.arg[2] ELSE call.arg[2] + call.arg[3]

-----------------------------------------------------------------------------
(* Properties of my_div and my_mod *)

\* q and r are the truncated quotient and the remainder of a by b
truncated(a, b, q, r) ==
    /\ a = q * b + r
    /\ Abs(r) < Abs(b)
    /\ r = 0 \/ Sign(r) = Sign(a)

\* C20: for every pair of ints (a, b), my_div and my_mod return, and return 0
\* when b = 0 or when a = INT_MIN and b = -1, the truncated quotient and the
\* remainder otherwise.
C20_Total ==
    last.op \in {"my_div", "my_mod"} =>
        LET a == last.arg[1]
            b == last.arg[2]
        IN  /\ last.ok
            /\ ~aborted
            /\ (b = 0 \/ (a = IntMin /\ b = -1)) => last.ret = 0
            /\ (b # 0 /\ ~(a = IntMin /\ b = -1)) =>
                  IF last.op = "my_div"
                  THEN \E r \in (-Abs(b))..Abs(b) : truncated(a, b, last.ret, r)
                  ELSE \E q \in (-Abs(a))..Abs(a) : truncated(a, b, q, last.ret)

\* my_div has returned 0 for INT_MIN / -1
C20_Witness ==
    /\ last.op = "my_div"
    /\ last.ok
    /\ last.arg = <<IntMin, -1>>
    /\ last.ret = 0

-----------------------------------------------------------------------------
(* Properties of Stats::operator< *)

\* a is better than b: lower weakness, or equal weakness and lower cost, or
\* equal weakness and cost and larger born
better(a, b) ==
    \/ double_lt(a.weakness, b.weakness)
    \/ double_eq(a.weakness, b.weakness) /\ a.cost < b.cost
    \/ double_eq(a.weakness, b.weakness) /\ a.cost = b.cost /\ a.born > b.born

\* all three fields compare equal
same_fields(a, b) ==
    double_eq(a.weakness, b.weakness) /\ a.cost = b.cost /\ a.born = b.born

\* operator< on a, b and c is irreflexive and transitive, exactly one of a < b,
\* b < a and equality of the fields holds, and a < b is "a is better than b"
strict_total(a, b, c, lt) ==
    /\ ~lt.aa
    /\ (lt.ab /\ lt.bc) => lt.ac
    /\ Cardinality({ k \in 1..3 : <<lt.ab, lt.ba, same_fields(a, b)>>[k] }) = 1
    /\ lt.ab <=> better(a, b)

\* C16 as stated: Stats operator< is a strict total order on all (weakness,
\* cost, born) triples, and a < b exactly when a is better than b.
C16_AnyWeakness ==
    last.op = "operator<" =>
        strict_total(last.arg[1], last.arg[2], last.arg[3], last.ret)

\* C16 as amended: the same on the triples whose weakness is not NaN.
C16_TotalOrder ==
    (last.op = "operator<" /\ \A k \in 1..3 : last.arg[k].weakness # NaN) =>
        strict_total(last.arg[1], last.arg[2], last.arg[3], last.ret)

\* a < b by birth generation alone, b < c by cost alone, and a < c
C16_Witness ==
    /\ last.op = "operator<"
    /\ \A k \in 1..3 : last.arg[k].weakness = 1
    /\ last.arg[1].cost = last.arg[2].cost
    /\ last.arg[1].born > last.arg[2].born
    /\ last.arg[2].cost < last.arg[3].cost
    /\ last.arg[2].born < last.arg[3].born
    /\ last.ret.ab /\ last.ret.bc /\ last.ret.ac

-----------------------------------------------------------------------------
(* Stats and fitness evaluation *)

\* C17: a step of Program::mutate, add_op or grow leaves weakness and cost as
\* they were, and after grow() and after every tick() the cost stored with each
\* program of the population is get_cost(_best_slot) of its operation list.
C17_StatsFresh ==
    /\ [][ last'.op \in {"mutate", "add_op", "grow"} =>
             /\ prog'.stats.weakness = prog.stats.weakness
             /\ prog'.stats.cost = prog.stats.cost ]_vars
    /\ [](\A i \in 1..Len(programs) :
             /\ get_cost(programs[i], programs[i].best_slot).ok
             /\ programs[i].stats.cost = get_cost(programs[i], programs[i].best_slot).ret
             /\ programs[i].stats.cost = slot_cost(programs[i], programs[i].best_slot))

\* mutate has run on a copy of a program that a tick pushed, and the cost the
\* copy holds is no longer that of its operation list
C17_Witness ==
    /\ last.op = "mutate"
    /\ gen >= 1
    /\ prog.stats.born >= 1
    /\ prog.stats.weakness = 1
    /\ prog.stats.cost # slot_cost(prog, prog.best_slot)

-----------------------------------------------------------------------------
(* The frame of Program::mutate *)

\* the number of fields in which two operations differ
fields_changed(a, b) ==
    (IF a.code # b.code THEN 1 ELSE 0)
    + (IF a.lhs # b.lhs THEN 1 ELSE 0)
    + (IF a.rhs # b.rhs THEN 1 ELSE 0)

\* q is p with at most one field of the operation at one position replaced, a
\* replaced code being one of the catalog
one_edit(p, q) ==
    /\ size(q) = size(p)
    /\ q.stats = p.stats
    /\ q.best_slot = p.best_slot
    /\ q.in_cnt = p.in_cnt
    /\ q.out_cnt = p.out_cnt
    /\ \E i \in 1..size(p) :
          /\ \A j \in 1..size(p) : j # i => q.program[j] = p.program[j]
          /\ fields_changed(p.program[i], q.program[i]) <= 1
          /\ q.program[i].code # p.program[i].code => q.program[i].code <= max_op(p.repo)

\* C22 as stated: every call of Program::mutate returns, having replaced at most
\* one field of the operation at exactly one position and nothing else.
C22_AnyProgram ==
    [][ last'.op = "mutate" => last'.ok /\ one_edit(prog, prog') ]_vars

\* C22: a call of Program::mutate on a program that holds at least one operation
\* returns, having replaced at most one field of the operation at exactly one
\* position: the length, the other operations, the other two fields and the Stats
\* are as before, and a replaced code is <= max_op().
C22_MutateFrame ==
    [][ last'.op = "mutate" /\ size(prog) >= 1 => last'.ok /\ one_edit(prog, prog') ]_vars

\* mutate has run on a program of two operations born in generation 1, and has
\* left an operation of code 1 that reads the operation before it twice
C22_Witness ==
    /\ last.op = "mutate"
    /\ last.ok
    /\ size(prog) = 2
    /\ prog.stats.born = 1
    /\ prog.program[2] = Op(1, Ref_op(0), Ref_op(0))

-----------------------------------------------------------------------------
(* The contract of Program::grow *)

\* target_len is a positive multiple of the out_cnt of p
positive_multiple(p, target_len) ==
    target_len >= 1 /\ target_len % p.out_cnt = 0

\* q is p with operations of the catalog appended up to target_len operations
grown(p, q, target_len) ==
    /\ size(q) = target_len
    /\ SubSeq(q.program, 1, size(p)) = p.program
    /\ \A i \in (size(p) + 1)..target_len : q.program[i].code <= max_op(p.repo)
    /\ [q EXCEPT !.program = p.program] = p

\* C23: grow(rnd, target_len) with target_len a positive multiple of out_cnt
\* returns with exactly target_len operations when the program was shorter, the
\* appended codes being <= max_op(), and leaves a program of target_len or more
\* operations as it was; with any other target_len the call fails and appends
\* nothing.
C23_Grow ==
    [][ last'.op = "grow" =>
          IF positive_multiple(prog, last'.arg[1])
          THEN /\ last'.ok
               /\ IF size(prog) < last'.arg[1]
                  THEN grown(prog, prog', last'.arg[1])
                  ELSE prog' = prog
          ELSE ~last'.ok /\ prog' = prog ]_vars

\* grow has returned with the longest target length followed, the last operation
\* appended having the largest code of the catalog
C23_Witness ==
    /\ last.op = "grow"
    /\ last.ok
    /\ last.arg[1] = MaxLen + 1
    /\ size(prog) = MaxLen + 1
    /\ prog.program[MaxLen + 1].code = max_op(prog.repo)

-----------------------------------------------------------------------------
(* The contract of Population::mutate *)

\* the programs that differ from p at most in their operations, each operation
\* being one that add_op would have taken at its position
same_frame(p) ==
    { [p EXCEPT !.program = ops] :
        ops \in { f \in [1..size(p) -> [code : 0..max_op(p.repo),
                                        lhs : (-p.in_cnt)..(size(p) - 2),
                                        rhs : (-p.in_cnt)..(size(p) - 2)]] :
                    \A i \in 1..size(p) : f[i].lhs <= i - 2 /\ f[i].rhs <= i - 2 } }

\* the number of fields in which the operations of p and q differ
RECURSIVE fields_apart(_, _, _)
fields_apart(p, q, i) ==
    IF i > size(p) THEN 0
    ELSE fields_changed(p.program[i], q.program[i]) + fields_apart(p, q, i + 1)

\* q is reached from p by n edits, each of one field of one operation, through
\* the programs F; an edit brings a program at most one field nearer to q
RECURSIVE edits_away(_, _, _, _)
edits_away(F, p, q, n) ==
    IF n = 0 THEN q = p
    ELSE \E r \in F : /\ fields_apart(r, q, 1) <= n - 1
                      /\ one_edit(p, r)
                      /\ edits_away(F, r, q, n - 1)

\* C21: Population::mutate(a) leaves a, the stored programs and the generation
\* counter as they were and returns a program of the length, in_cnt and out_cnt
\* of a that at least one call of Program::mutate separates from a, born in the
\* current generation.
C21_PopulationMutate ==
    [][ last'.op = "Population_mutate" =>
          LET n == last'.ret[1]
              new_prog == last'.ret[2]
          IN  /\ prog' = prog
              /\ programs' = programs
              /\ gen' = gen
              /\ size(new_prog) = size(prog)
              /\ new_prog.in_cnt = prog.in_cnt
              /\ new_prog.out_cnt = prog.out_cnt
              /\ new_prog.stats.born = gen
              /\ n >= 1
              /\ edits_away(same_frame(prog), prog,
                            reborn(new_prog, prog.stats.born), n) ]_vars

\* Population::mutate has returned, after two rounds, a program that differs in
\* two operations from its argument, a program of an earlier generation
C21_Witness ==
    /\ last.op = "Population_mutate"
    /\ last.ret[1] = 2
    /\ gen >= 1
    /\ prog.stats.born < gen
    /\ size(prog) = 2
    /\ last.ret[2].stats.born = gen
    /\ last.ret[2].program[1] # prog.program[1]
    /\ last.ret[2].program[2] # prog.program[2]

-----------------------------------------------------------------------------
(* Generation bookkeeping *)

\* the number of places of seq that hold x
RECURSIVE count(_, _)
count(seq, x) ==
    IF seq = << >> THEN 0
    ELSE (IF Head(seq) = x THEN 1 ELSE 0) + count(Tail(seq), x)

\* the programs of seq born before generation g, in their order
born_before(seq, g) == SelectSeq(seq, LAMBDA p : p.stats.born < g)

\* C24: a tick() adds exactly one to the generation counter; the programs it
\* leaves that were born before the new generation are the elite it kept, as
\* they were, and every other program it leaves was born in the new generation;
\* after the construction and after every tick no stored program was born after
\* the generation counter.
C24_Generations ==
    /\ [][ last'.op = "tick" =>
             LET elite == apex(programs, apex_cnt)
                 kept == born_before(programs', gen')
             IN  /\ gen' = gen + 1
                 /\ Len(kept) = Len(elite)
                 /\ \A i \in 1..Len(elite) : count(kept, elite[i]) = count(elite, elite[i])
                 /\ \A i \in 1..Len(programs') :
                       programs'[i].stats.born <= gen' ]_vars
    /\ [](\A i \in 1..Len(programs) : programs[i].stats.born <= gen)

\* the second tick has kept a program of the construction as its elite and has
\* put a program born in generation 2 before it
C24_Witness ==
    /\ last.op = "tick"
    /\ last.ok
    /\ gen = 2
    /\ programs[1].stats.born = 2
    /\ \E i \in 2..Len(programs) : programs[i].stats.born = 0

-----------------------------------------------------------------------------
(* The best program over the generations *)

\* C25: the program a tick() leaves at the front is not strictly worse than the
\* program that was at the front before it (pop_cnt >= 10), and its weakness is
\* not larger.
C25_BestKept ==
    [][ last'.op = "tick" /\ last'.ok /\ params.pop_cnt >= 10 =>
          /\ ~better(programs[1].stats, programs'[1].stats)
          /\ ~Stats_lt(programs[1].stats, programs'[1].stats)
          /\ programs'[1].stats.weakness <= programs[1].stats.weakness ]_vars

\* a tick has put a program of weakness 0, born in it, before the program of
\* weakness 1 that was the best before
C25_Witness ==
    /\ last.op = "tick"
    /\ last.ok
    /\ params.pop_cnt >= 10
    /\ programs[1].stats.born = gen
    /\ programs[1].stats.weakness = 0
    /\ \E i \in 2..Len(programs) :
          /\ programs[i].stats.born < gen
          /\ programs[i].stats.weakness = 1

====
